---- MODULE Spec2Model ----
\* Report store of the dashboard: ReportManager (report_manager.py, the
\* session-scoped store used by app_content.py) and ReportService
\* (report_service.py, the process-wide store used by main.py).
\*
\* A report record is reduced to the two fields the stores look at: its id
\* (report_id) and its sort key (report_date).  The seed file, the external
\* generator and random.sample are inputs: every outcome they can produce is
\* a nondeterministic choice.
\*
\* Specifications: Spec (ReportManager), SpecService (ReportService and the
\* page flow of main.py), SpecLoad (the two loaders alone), SpecQuery
\* (ReportManager with its queries), SpecRetry (the retry loop of
\* generate_new_report under fairness), SpecApp (the render passes of
\* app_content.py with logout, chat and the refresh scheduler) and SpecNav
\* (the page flow of app_content.py), SpecSingleton (get_report_service
\* called by the threads of several sessions).
EXTENDS Integers, Sequences, FiniteSets, TLC

\* ---------------------------------------------------------------- bounds
NumIds == 3          \* distinct report ids the generator / seed file can produce
NumDates == 2        \* distinct report dates
MaxSeedLen == 2      \* longest seed file enumerated
MaxReports == 3      \* appends are explored while the collection is shorter
MaxRetries == 1      \* colliding generator answers explored per call
MaxResetN == 3       \* largest argument of reset_the_reports explored
\* Sizes scaled down from the source so that the sampling cases are reachable:
InitialSample == 1   \* stands for the 50 of report_manager.py:66
InitialBatch == 2    \* stands for the 50 of report_manager.py:44
ServiceSample == 2   \* stands for the 10 of report_service.py:31
LogoutSize == 1      \* stands for the 140 of app_content.py:313
SchedulerCap == 2    \* stands for the cap of 500 of the refresh scheduler
MaxChat == 2         \* chat turns explored
NumSessions == 2     \* browser sessions served by one process

Ids == 1..NumIds
Dates == 1..NumDates

\* ---------------------------------------------------------------- records
\* SignalsReport / FraudReport, reduced to report_id and report_date.
Report == [id : Ids, date : Dates]

\* Python's None where a report is expected.
None == [id |-> 0, date |-> 0]

Min(a, b) == IF a <= b THEN a ELSE b

\* All sequences over S of length 0..n.
SeqUpTo(S, n) == UNION {[1..k -> S] : k \in 0..n}

\* {report.report_id for report in self.reports}
\* Variant of IdsOf that reads the id of the first record only.
IdsOfFirst(s) == IF s = <<>> THEN {} ELSE {s[1].id}

IdsOf(s) == {s[i].id : i \in DOMAIN s}

MembersOf(s) == {s[i] : i \in DOMAIN s}

DistinctIds(s) == \A i, j \in DOMAIN s : i # j => s[i].id # s[j].id

IsSortedDesc(s) == \A i, j \in DOMAIN s : i < j => s[i].date >= s[j].date

\* list.sort(key=lambda x: x.report_date, reverse=True): a stable sort, so
\* records with equal dates keep their relative order.  InsertDesc puts r
\* behind every record whose date is >= r.date.
RECURSIVE InsertDesc(_, _)
InsertDesc(s, r) ==
    IF s = <<>> THEN <<r>>
    ELSE IF s[1].date >= r.date THEN <<s[1]>> \o InsertDesc(Tail(s), r)
    ELSE <<r>> \o s

RECURSIVE SortDesc(_)
SortDesc(s) ==
    IF s = <<>> THEN <<>>
    ELSE InsertDesc(SortDesc(SubSeq(s, 1, Len(s) - 1)), s[Len(s)])

\* Variant of Samples that may draw the same position more than once.
SamplesWithRepeats(pop, n) ==
    {[i \in 1..n |-> pop[f[i]]] : f \in [1..n -> DOMAIN pop]}

\* random.sample(population, n): n positions without replacement, in any
\* order.  Empty when n > len(population) (the call raises ValueError).
Samples(pop, n) ==
    {[i \in 1..n |-> pop[f[i]]] :
        f \in {g \in [1..n -> DOMAIN pop] : \A a, b \in 1..n : a # b => g[a] # g[b]}}

\* ---------------------------------------------------------------- state
VARIABLES
    seed,       \* the seed file: [status, recs]
    pc,         \* ReportManager: "new" (not constructed), "idle", "gen" (inside the retry loop)
    reports,    \* ReportManager.reports
    session,    \* st.session_state[reports_key]: [present, val]
    aliased,    \* self.reports and st.session_state[reports_key] are one list object
    retries,    \* colliding generator answers in the generate_new_report call under way or just ended
    ret,        \* outcome of the last call: [kind, val]; NoCall while a call is under way
    op,         \* the operation under way or just ended: [name, n], n its argument
    svc_pc,     \* ReportService singleton: "new", "ready", "crashed" (constructor raised)
    svc_reports,\* ReportService.reports
    page,       \* st.session_state["page"]
    selected_report_data, \* st.session_state["selected_report_data"]
    chat_history,         \* st.session_state.chat_history, the role of each turn
    sched,                \* the refresh scheduler: "none", "active", "terminal"
    notice,               \* the st.error / st.warning messages of the last
                          \* construction or open request, by kind
    query,                \* st.query_params["report_id"]: 0 when absent
    prompt,               \* st.session_state.prompt: "" or the question "q"
    instances,            \* the ReportService objects built in the process, each by its reports
    service_singleton,    \* report_service._service_singleton: 0 for None, or an index of instances
    report_service,       \* main.py's report_service of each session: 0 before the first call
    at                    \* each session's thread in get_report_service: "out" or
                          \* "checked" (it has read None and is about to construct)

vars == <<seed, pc, reports, session, aliased, retries, ret, op,
          svc_pc, svc_reports, page, selected_report_data,
          chat_history, sched, notice, query, prompt,
          instances, service_singleton, report_service, at>>

mgrVars == <<pc, reports, session, aliased, retries>>
svcVars == <<svc_pc, svc_reports, page, selected_report_data>>
appVars == <<chat_history, sched, query, prompt>>
procVars == <<instances, service_singleton, report_service, at>>

Sessions == 1..NumSessions

\* Position of a report in a fixed enumeration of Report.
Rank(r) == (r.id - 1) * NumDates + r.date

\* The seed file: missing, not parseable as JSON, holding a record that fails
\* schema validation, or a JSON array of valid records.  Both stores read the
\* array only through random.sample, which erases its order, and compare ids
\* only for equality, so one array per multiset of records and per renaming
\* of ids is enumerated: records in Rank order, ids an initial segment of
\* Ids.  Arrays with repeated ids and repeated records are included.
SeedFiles ==
    {[status |-> st, recs |-> <<>>] : st \in {"missing", "bad_json", "bad_record"}}
    \cup {[status |-> "ok", recs |-> rs] :
            rs \in {q \in SeqUpTo(Report, MaxSeedLen) :
                      /\ \A i, j \in DOMAIN q : i < j => Rank(q[i]) <= Rank(q[j])
                      /\ IdsOf(q) = 1..Cardinality(IdsOf(q))}}

Op(name) == [name |-> name, n |-> 0]

NoCall == [kind |-> "nocall", val |-> None]
Returned(v) == [kind |-> "return", val |-> v]
Raised == [kind |-> "raise", val |-> None]
\* A call that returned a list of records, and one that returned a set of ids.
ReturnedRows(v) == [kind |-> "rows", val |-> v]
ReturnedIds(v) == [kind |-> "ids", val |-> v]

Init ==
    /\ seed \in SeedFiles
    /\ pc = "new"
    /\ reports = <<>>
    /\ session = [present |-> FALSE, val |-> <<>>]
    /\ aliased = FALSE
    /\ retries = 0
    /\ ret = NoCall
    /\ op = Op("start")
    /\ svc_pc = "new"
    /\ svc_reports = <<>>
    /\ page = "report_selection"
    /\ selected_report_data = None
    /\ chat_history = <<>>
    /\ sched = "none"
    /\ notice = {}
    /\ query = 0
    /\ prompt = ""
    /\ instances = <<>>
    /\ service_singleton = 0
    /\ report_service = [t \in Sessions |-> 0]
    /\ at = [t \in Sessions |-> "out"]

\* ---------------------------------------------------------------- ReportManager

\* Variant of LoadInitialReports that keeps the whole file (no down-sampling).
LoadInitialReportsWhole(sd) ==
    IF sd.status = "ok" /\ sd.recs # <<>> THEN {sd.recs} ELSE {<<>>}

\* Variant of LoadInitialReports that skips the records that fail validation
\* and keeps the valid ones.
LoadInitialReportsSkipInvalid(sd) ==
    IF sd.status \in {"ok", "bad_record"} /\ sd.recs # <<>>
    THEN Samples(sd.recs, Min(InitialSample, Len(sd.recs)))
    ELSE {<<>>}

\* ReportManager._load_initial_reports: the lists it can return.
LoadInitialReports(sd) ==
    IF sd.status = "ok" /\ sd.recs # <<>>
    THEN Samples(sd.recs, Min(InitialSample, Len(sd.recs)))
    ELSE {<<>>}

\* The message _load_initial_reports shows: a warning for an absent file and
\* for an array without records, an error for a file that cannot be parsed
\* or validated.
LoadNotice(sd) ==
    IF sd.status = "missing" THEN {"file_not_found"}
    ELSE IF sd.status \in {"bad_json", "bad_record"} THEN {"load_error"}
    ELSE IF sd.recs = <<>> THEN {"no_reports"}
    ELSE {}

\* Variant of ConstructStore that keeps the reports generated before a
\* failing generator call.
ConstructStoreKeepsPartial ==
    /\ pc = "new"
    /\ \E loaded \in LoadInitialReports(seed) :
        IF loaded # <<>>
        THEN /\ reports' = SortDesc(loaded)
             /\ session' = [present |-> TRUE, val |-> SortDesc(loaded)]
             /\ aliased' = TRUE
             /\ notice' = LoadNotice(seed)
        ELSE \/ \E batch \in [1..InitialBatch -> Report] :
                  /\ reports' = SortDesc(batch)
                  /\ session' = [present |-> TRUE, val |-> SortDesc(batch)]
                  /\ aliased' = TRUE
                  /\ notice' = LoadNotice(seed)
             \/ \E part \in SeqUpTo(Report, InitialBatch - 1) :
                  /\ reports' = SortDesc(part)
                  /\ session' = [present |-> TRUE, val |-> SortDesc(part)]
                  /\ aliased' = TRUE
                  /\ notice' = LoadNotice(seed) \cup {"generate_error"}
    /\ pc' = "idle"
    /\ retries' = 0
    /\ ret' = Returned(None)
    /\ op' = Op("construct")
    /\ UNCHANGED <<seed, procVars, svcVars>>

\* ReportManager.__init__, its effect on the store and the session's reports.
\* The batch is assigned only when all InitialBatch generator calls have
\* returned; a raising call leaves an empty collection and an error message.
ConstructStore ==
    /\ pc = "new"
    /\ \E loaded \in LoadInitialReports(seed) :
        IF loaded # <<>>
        THEN /\ reports' = SortDesc(loaded)
             /\ session' = [present |-> TRUE, val |-> SortDesc(loaded)]
             /\ aliased' = TRUE
             /\ notice' = LoadNotice(seed)
        ELSE \/ \E batch \in [1..InitialBatch -> Report] :
                  /\ reports' = SortDesc(batch)
                  /\ session' = [present |-> TRUE, val |-> SortDesc(batch)]
                  /\ aliased' = TRUE
                  /\ notice' = LoadNotice(seed)
             \/ /\ reports' = <<>>
                /\ session' = [present |-> TRUE, val |-> <<>>]
                /\ aliased' = FALSE
                /\ notice' = LoadNotice(seed) \cup {"generate_error"}
    /\ pc' = "idle"
    /\ retries' = 0
    /\ ret' = Returned(None)
    /\ op' = Op("construct")
    /\ UNCHANGED <<seed, procVars, svcVars>>

\* ReportManager.__init__
Construct == ConstructStore /\ UNCHANGED appVars

\* Variant of Appended without the sort.
AppendedUnsorted(s, r) == Append(s, r)

\* Variant of Appended in which the new record displaces a stored one.
AppendedDisplacing(s, r) == IF s = <<>> THEN <<r>> ELSE SortDesc(Append(Tail(s), r))

\* The list after generate_new_report has appended r and sorted.
Appended(s, r) == SortDesc(Append(s, r))

\* Variant of IsUnique that accepts every generated report.
IsUniqueUnchecked(r, s) == TRUE

\* The test of _generate_unique_report that lets a generated report through.
IsUnique(r, s) == r.id \notin IdsOf(s)

\* What generate_new_report hands back to its caller (it has no return statement).
GenerateResult(r) == Returned(None)

\* ReportManager.generate_new_report, entry: the call reaches the retry loop
\* of _generate_unique_report.
GenerateCall ==
    /\ pc = "idle"
    /\ Len(reports) < MaxReports
    /\ pc' = "gen"
    /\ retries' = 0
    /\ ret' = NoCall
    /\ op' = Op("generate_call")
    /\ UNCHANGED <<seed, procVars, notice, appVars, reports, session, aliased, svcVars>>

\* _generate_unique_report: generate_report() returned a report whose id is
\* already stored; the loop calls the generator again.
GenerateCollide ==
    /\ pc = "gen"
    /\ retries < MaxRetries
    /\ \E r \in Report : ~IsUnique(r, reports)
    /\ retries' = retries + 1
    /\ UNCHANGED <<seed, procVars, notice, appVars, pc, reports, session, aliased, ret, op, svcVars>>

\* Variant of GenerateAppend in which only the first answer of the generator
\* can be returned: after a colliding id the generator is not called again.
GenerateAppendFirstTry ==
    /\ pc = "gen"
    /\ retries = 0
    /\ \E r \in Report :
        /\ IsUnique(r, reports)
        /\ reports' = Appended(reports, r)
        /\ session' = [present |-> TRUE, val |-> Appended(reports, r)]
        /\ ret' = GenerateResult(r)
    /\ aliased' = TRUE
    /\ pc' = "idle"
    /\ op' = Op("generate")
    /\ UNCHANGED <<seed, procVars, notice, appVars, retries, svcVars>>

\* _generate_unique_report returned r; generate_new_report appends it,
\* sorts and stores the list in session state.
GenerateAppend ==
    /\ pc = "gen"
    /\ \E r \in Report :
        /\ IsUnique(r, reports)
        /\ reports' = Appended(reports, r)
        /\ session' = [present |-> TRUE, val |-> Appended(reports, r)]
        /\ ret' = GenerateResult(r)
    /\ aliased' = TRUE
    /\ pc' = "idle"
    /\ op' = Op("generate")
    /\ UNCHANGED <<seed, procVars, notice, appVars, retries, svcVars>>

\* generate_report() raised: nothing in generate_new_report catches it.
GenerateRaise ==
    /\ pc = "gen"
    /\ pc' = "idle"
    /\ ret' = Raised
    /\ op' = Op("generate")
    /\ UNCHANGED <<seed, procVars, notice, appVars, reports, session, aliased, retries, svcVars>>

\* Variant of ResetIsNoop with a strict comparison.
ResetIsNoopStrict(n, s) == n > Len(s)

\* The early return of reset_the_reports.
ResetIsNoop(n, s) == n >= Len(s)

\* Variant of ResetTheReports that re-samples from the seed file.
ResetFromSeed(n) ==
    /\ pc = "idle"
    /\ IF ResetIsNoop(n, reports)
       THEN /\ UNCHANGED <<reports, session, aliased>>
            /\ op' = [name |-> "reset_return", n |-> n]
       ELSE \E smp \in Samples(seed.recs, Min(n, Len(seed.recs))) :
              /\ reports' = SortDesc(smp)
              /\ session' = [present |-> TRUE, val |-> SortDesc(smp)]
              /\ aliased' = TRUE
              /\ op' = [name |-> "reset_sample", n |-> n]
    /\ ret' = Returned(None)
    /\ retries' = 0
    /\ UNCHANGED <<seed, procVars, notice, appVars, pc, svcVars>>

\* ReportManager.reset_the_reports(n), its effect on the store and the
\* session's reports.
ResetStore(n) ==
    /\ pc = "idle"
    /\ IF ResetIsNoop(n, reports)
       THEN /\ UNCHANGED <<reports, session, aliased>>
            /\ op' = [name |-> "reset_return", n |-> n]
       ELSE \E smp \in Samples(reports, n) :
              /\ reports' = SortDesc(smp)
              /\ session' = [present |-> TRUE, val |-> SortDesc(smp)]
              /\ aliased' = TRUE
              /\ op' = [name |-> "reset_sample", n |-> n]
    /\ ret' = Returned(None)
    /\ retries' = 0
    /\ UNCHANGED <<seed, procVars, notice, pc, svcVars>>

\* ReportManager.reset_the_reports(n)
ResetTheReports(n) == ResetStore(n) /\ UNCHANGED appVars

Reset == \E n \in 0..MaxResetN : ResetTheReports(n)

Next ==
    \/ Construct
    \/ GenerateCall
    \/ GenerateCollide
    \/ GenerateAppend
    \/ GenerateRaise
    \/ Reset

Spec == Init /\ [][Next]_vars

\* ---------------------------------------------------------------- ReportManager queries

\* ReportManager.get_all_reports: returns self.reports.
GetAllReports ==
    /\ pc = "idle"
    /\ ret' = ReturnedRows(reports)
    /\ op' = Op("get_all")
    /\ UNCHANGED <<seed, procVars, notice, appVars, mgrVars, svcVars>>

\* ReportManager.get_report_ids: the set of the report_ids of self.reports.
GetReportIds ==
    /\ pc = "idle"
    /\ ret' = ReturnedIds(IdsOf(reports))
    /\ op' = Op("get_ids")
    /\ UNCHANGED <<seed, procVars, notice, appVars, mgrVars, svcVars>>

NextQuery ==
    \/ Next
    \/ GetAllReports
    \/ GetReportIds

\* Seed files short enough to be loaded whole, and the absent file: the
\* session starts from one of these where what is examined does not depend
\* on the down-sampling of a longer file.
SmallSeedFiles ==
    {sd \in SeedFiles :
        \/ sd.status = "missing"
        \/ sd.status = "ok" /\ Len(sd.recs) \in 1..InitialSample}

InitSmall == Init /\ seed \in SmallSeedFiles

SpecQuery == InitSmall /\ [][NextQuery]_vars

\* ---------------------------------------------------------------- the retry loop
\* Construction, generate_new_report and the queries under the assumption
\* that the generator, asked often enough, answers with an id that is not
\* stored.

NextRetry ==
    \/ Construct
    \/ GenerateCall
    \/ GenerateCollide
    \/ GenerateAppend
    \/ GenerateRaise
    \/ GetAllReports
    \/ GetReportIds

\* The session starts from a seed file that is loaded whole.
InitRetry == InitSmall /\ seed.status = "ok"

SpecRetry == InitRetry /\ [][NextRetry]_vars /\ WF_vars(GenerateAppend)

\* ---------------------------------------------------------------- ReportService

\* ReportService._load_reports: the list it returns.  A record that fails
\* validation raises ValidationError, which the except clause does not name.
LoadReportsRaises(sd) == sd.status = "bad_record"

LoadReports(sd) == IF sd.status = "ok" THEN sd.recs ELSE <<>>

\* get_report_service(), first call: ReportService.__init__.  random.sample
\* raises ValueError when fewer than ServiceSample records were loaded.
SvcConstruct ==
    /\ svc_pc = "new"
    /\ IF LoadReportsRaises(seed) \/ Len(LoadReports(seed)) < ServiceSample
       THEN /\ svc_pc' = "crashed"
            /\ ret' = Raised
            /\ UNCHANGED svc_reports
       ELSE /\ \E smp \in Samples(LoadReports(seed), ServiceSample) :
                  svc_reports' = SortDesc(smp)
            /\ svc_pc' = "ready"
            /\ ret' = Returned(None)
    /\ op' = Op("svc_construct")
    /\ UNCHANGED <<seed, procVars, notice, appVars, mgrVars, page, selected_report_data>>

\* ReportService.generate_new_report: the report is appended (no sort, no
\* uniqueness test) and returned.
SvcGenerate ==
    /\ svc_pc = "ready"
    /\ Len(svc_reports) < MaxReports
    /\ \E r \in Report :
        /\ svc_reports' = Append(svc_reports, r)
        /\ ret' = Returned(r)
    /\ op' = Op("svc_generate")
    /\ UNCHANGED <<seed, procVars, notice, appVars, mgrVars, svc_pc, page, selected_report_data>>

\* ReportService.generate_new_report: a generate_content call or the
\* validation of its answer raised before the append.
SvcGenerateRaise ==
    /\ svc_pc = "ready"
    /\ ret' = Raised
    /\ op' = Op("svc_generate")
    /\ UNCHANGED <<seed, procVars, notice, appVars, mgrVars, svcVars>>

\* Variant of GetById that compares with the first record only.
RECURSIVE GetByIdFirstOnly(_, _)
GetByIdFirstOnly(s, x) ==
    IF s = <<>> THEN None
    ELSE IF s[1].id = x THEN s[1]
    ELSE None

\* next((r for r in all_reports if r.report_id == x), None)
RECURSIVE GetById(_, _)
GetById(s, x) ==
    IF s = <<>> THEN None
    ELSE IF s[1].id = x THEN s[1]
    ELSE GetById(Tail(s), x)

\* main.py report_selection_page with ?report_id=x in the URL.
SvcOpenReport(x) ==
    /\ svc_pc = "ready"
    /\ page = "report_selection"
    /\ svc_reports # <<>>
    /\ IF GetById(svc_reports, x) # None
       THEN /\ selected_report_data' = GetById(svc_reports, x)
            /\ page' = "report_view"
       ELSE UNCHANGED <<page, selected_report_data>>
    /\ ret' = Returned(GetById(svc_reports, x))
    /\ op' = [name |-> "open", n |-> x]
    /\ UNCHANGED <<seed, procVars, notice, appVars, mgrVars, svc_pc, svc_reports>>

SvcOpen == \E x \in Ids : SvcOpenReport(x)

\* main.py report_view_page, "Back to Reports".
SvcBack ==
    /\ svc_pc = "ready"
    /\ page = "report_view"
    /\ page' = "report_selection"
    /\ selected_report_data' = None
    /\ op' = Op("back")
    /\ UNCHANGED <<seed, procVars, notice, appVars, mgrVars, svc_pc, svc_reports, ret>>

NextService ==
    \/ SvcConstruct
    \/ SvcGenerate
    \/ SvcGenerateRaise
    \/ SvcOpen
    \/ SvcBack

SpecService == Init /\ [][NextService]_vars

\* ------------------------------------------- the service singleton, by session
\* Each session's script runs in a thread of its own; get_report_service
\* tests the module global and assigns it in separate steps, without a lock.

\* get_report_service up to and including the test of the global: the
\* instance is returned when there is one; otherwise the thread goes on to
\* build one.
ServiceCheck(t) ==
    /\ at[t] = "out"
    /\ IF service_singleton # 0
       THEN /\ report_service' = [report_service EXCEPT ![t] = service_singleton]
            /\ ret' = Returned(None)
            /\ UNCHANGED at
       ELSE /\ at' = [at EXCEPT ![t] = "checked"]
            /\ ret' = NoCall
            /\ UNCHANGED report_service
    /\ op' = [name |-> "get_service", n |-> t]
    /\ UNCHANGED <<seed, notice, appVars, mgrVars, svcVars, instances, service_singleton>>

\* get_report_service after the test found None: ReportService(...) is
\* built, assigned to the global and returned, or its constructor raises and
\* the global stays None.
ServiceBuild(t) ==
    /\ at[t] = "checked"
    /\ IF LoadReportsRaises(seed) \/ Len(LoadReports(seed)) < ServiceSample
       THEN /\ ret' = Raised
            /\ UNCHANGED <<instances, service_singleton, report_service>>
       ELSE /\ \E smp \in Samples(LoadReports(seed), ServiceSample) :
                  instances' = Append(instances, SortDesc(smp))
            /\ service_singleton' = Len(instances) + 1
            /\ report_service' = [report_service EXCEPT ![t] = Len(instances) + 1]
            /\ ret' = Returned(None)
    /\ at' = [at EXCEPT ![t] = "out"]
    /\ op' = [name |-> "build_service", n |-> t]
    /\ UNCHANGED <<seed, notice, appVars, mgrVars, svcVars>>

\* generate_new_report through the instance session t holds.
ServiceAppend(t) ==
    /\ at[t] = "out"
    /\ report_service[t] # 0
    /\ Len(instances[report_service[t]]) < MaxReports
    /\ \E r \in Report :
        /\ instances' = [instances EXCEPT ![report_service[t]] = Append(@, r)]
        /\ ret' = Returned(r)
    /\ op' = [name |-> "svc_generate", n |-> t]
    /\ UNCHANGED <<seed, notice, appVars, mgrVars, svcVars, service_singleton,
                   report_service, at>>

NextSingleton ==
    \/ \E t \in Sessions : ServiceCheck(t)
    \/ \E t \in Sessions : ServiceBuild(t)
    \/ \E t \in Sessions : ServiceAppend(t)

SpecSingleton == Init /\ [][NextSingleton]_vars

\* ---------------------------------------------------------------- loading alone
\* The two constructors up to the point where the loaded list is stored, so
\* that the result of the load itself is a state.

\* Seed files with a record that fails validation next to valid ones; recs
\* are the records of the file that pass validation.
LoadFiles ==
    SeedFiles
    \cup {[status |-> "bad_record", recs |-> sd.recs] :
            sd \in {f \in SeedFiles : f.status = "ok" /\ f.recs # <<>>}}

InitLoad ==
    /\ seed \in LoadFiles
    /\ pc = "new"
    /\ reports = <<>>
    /\ session = [present |-> FALSE, val |-> <<>>]
    /\ aliased = FALSE
    /\ retries = 0
    /\ ret = NoCall
    /\ op = Op("start")
    /\ svc_pc = "new"
    /\ svc_reports = <<>>
    /\ page = "report_selection"
    /\ selected_report_data = None
    /\ chat_history = <<>>
    /\ sched = "none"
    /\ notice = {}
    /\ query = 0
    /\ prompt = ""
    /\ instances = <<>>
    /\ service_singleton = 0
    /\ report_service = [t \in Sessions |-> 0]
    /\ at = [t \in Sessions |-> "out"]

\* ReportManager.__init__ up to self.reports = st.session_state[key].
MgrLoad ==
    /\ pc = "new"
    /\ \E loaded \in LoadInitialReports(seed) :
        /\ session' = [present |-> TRUE, val |-> loaded]
        /\ reports' = loaded
    /\ aliased' = TRUE
    /\ notice' = LoadNotice(seed)
    /\ pc' = "loaded"
    /\ op' = Op("load")
    /\ UNCHANGED <<seed, procVars, appVars, retries, ret, svcVars>>

\* ReportManager.__init__ from "if not self.reports" to the final sort.
MgrPopulate ==
    /\ pc = "loaded"
    /\ IF reports # <<>>
       THEN /\ reports' = SortDesc(reports)
            /\ session' = [present |-> TRUE, val |-> SortDesc(reports)]
            /\ aliased' = TRUE
            /\ UNCHANGED notice
       ELSE \/ \E batch \in [1..InitialBatch -> Report] :
                 /\ reports' = SortDesc(batch)
                 /\ session' = [present |-> TRUE, val |-> SortDesc(batch)]
                 /\ aliased' = TRUE
                 /\ UNCHANGED notice
            \/ /\ reports' = <<>>
               /\ aliased' = FALSE
               /\ notice' = notice \cup {"generate_error"}
               /\ UNCHANGED session
    /\ pc' = "idle"
    /\ ret' = Returned(None)
    /\ op' = Op("construct")
    /\ UNCHANGED <<seed, procVars, appVars, retries, svcVars>>

\* ReportService.__init__: self.reports = self._load_reports().
SvcLoad ==
    /\ svc_pc = "new"
    /\ IF LoadReportsRaises(seed)
       THEN /\ svc_pc' = "crashed"
            /\ ret' = Raised
            /\ UNCHANGED svc_reports
       ELSE /\ svc_reports' = LoadReports(seed)
            /\ svc_pc' = "loaded"
            /\ ret' = Returned(None)
    /\ op' = Op("svc_load")
    /\ UNCHANGED <<seed, procVars, notice, appVars, mgrVars, page, selected_report_data>>

NextLoad ==
    \/ MgrLoad
    \/ MgrPopulate
    \/ SvcLoad

SpecLoad == InitLoad /\ [][NextLoad]_vars

\* ---------------------------------------------------------------- app_content render passes
\* display_app_content with the ReportManager of the session, the Home and
\* Map buttons, the chat box, the logout callback, and the refresh scheduler
\* that is started at the end of a pass.

\* The scheduler after a render pass that ends on page p: a pass on the
\* listing page starts a fresh instance; a pass on another page starts none
\* and the instance of an earlier pass, if any, goes on.
SchedulerAfterPass(p) == IF p = "report_selection" THEN "active" ELSE sched

\* First pass of a session: "report_manager" is not in st.session_state.
FirstRender ==
    /\ ConstructStore
    /\ sched' = SchedulerAfterPass(page)
    /\ UNCHANGED <<chat_history, query, prompt>>

\* Variant of Rerender that builds the store anew from the seed file.
RerenderRebuild ==
    /\ pc = "idle"
    /\ \E loaded \in LoadInitialReports(seed) :
        /\ reports' = SortDesc(loaded)
        /\ session' = [present |-> TRUE, val |-> SortDesc(loaded)]
    /\ aliased' = TRUE
    /\ sched' = SchedulerAfterPass(page)
    /\ op' = Op("construct")
    /\ ret' = NoCall
    /\ retries' = 0
    /\ UNCHANGED <<seed, procVars, notice, pc, svcVars, chat_history, query, prompt>>

\* ReportManager.get_report_by_id(x): the record with that id, or none.
GetReportById(s, x) == GetById(s, x)

\* The report_id query parameter names a record of the store.
QueryFound == query # 0 /\ GetReportById(reports, query) # None

\* The query parameter handling that every pass runs before it dispatches on
\* the page: a record found is selected and shown, the parameter is kept; a
\* record not found is reported by st.error.
PageAfterQuery(p) == IF QueryFound THEN "report_view" ELSE p

SelectedAfterQuery(r) == IF QueryFound THEN GetReportById(reports, query) ELSE r

NoticeAfterQuery ==
    IF query # 0 /\ ~QueryFound
    THEN notice \cup {"not_found"}
    ELSE notice \ {"not_found"}

\* Chatbox.render at the end of a pass on page p with the prompt pr: on the
\* listing and on the report page the user turn is appended, and the assistant
\* turn and the clearing of the prompt follow only when the answer is not
\* empty; on the map page neither data_desc nor attach_data is assigned and
\* building the prompt raises NameError.
ChatRaises(pr, p) == pr # "" /\ p = "map_view"

ChatTurns(pr, p, answered) ==
    IF pr = "" \/ p = "map_view" THEN <<>>
    ELSE IF answered THEN <<"user", "assistant">>
    ELSE <<"user">>

PromptAfterChat(pr, p, answered) ==
    IF pr # "" /\ p # "map_view" /\ answered THEN "" ELSE pr

\* The chat part of a pass that ends on page p with the prompt pr.
ChatPass(pr, p) ==
    /\ \E answered \in BOOLEAN :
        /\ chat_history' = chat_history \o ChatTurns(pr, p, answered)
        /\ prompt' = PromptAfterChat(pr, p, answered)
    /\ Len(chat_history') <= MaxChat
    /\ ret' = IF ChatRaises(pr, p) THEN Raised ELSE NoCall

\* A later pass: the manager kept in st.session_state is attached again.
Rerender ==
    /\ pc = "idle"
    /\ page' = PageAfterQuery(page)
    /\ selected_report_data' = SelectedAfterQuery(selected_report_data)
    /\ notice' = NoticeAfterQuery
    /\ sched' = SchedulerAfterPass(page')
    /\ ChatPass(prompt, page')
    /\ op' = Op("render")
    /\ retries' = 0
    /\ UNCHANGED <<seed, procVars, pc, reports, session, aliased, svc_pc, svc_reports, query>>

\* The Home button: page is set and the script reruns; the pass of the rerun
\* handles the query parameter.
NavHome ==
    /\ pc = "idle"
    /\ page' = PageAfterQuery("report_selection")
    /\ selected_report_data' = SelectedAfterQuery(selected_report_data)
    /\ notice' = NoticeAfterQuery
    /\ sched' = SchedulerAfterPass(page')
    /\ ChatPass(prompt, page')
    /\ op' = Op("home")
    /\ retries' = 0
    /\ UNCHANGED <<seed, procVars, pc, reports, session, aliased, svc_pc, svc_reports, query>>

\* The Map button: page is set and the script reruns; the pass of the rerun
\* handles the query parameter.
NavMap ==
    /\ pc = "idle"
    /\ page' = PageAfterQuery("map_view")
    /\ selected_report_data' = SelectedAfterQuery(selected_report_data)
    /\ notice' = NoticeAfterQuery
    /\ sched' = SchedulerAfterPass(page')
    /\ ChatPass(prompt, page')
    /\ op' = Op("map")
    /\ retries' = 0
    /\ UNCHANGED <<seed, procVars, pc, reports, session, aliased, svc_pc, svc_reports, query>>

\* A question is submitted (a predefined question or the chat input): the
\* prompt is set and the script reruns; the pass of the rerun answers it.
Chat ==
    /\ pc = "idle"
    /\ prompt = ""
    /\ page' = PageAfterQuery(page)
    /\ selected_report_data' = SelectedAfterQuery(selected_report_data)
    /\ notice' = NoticeAfterQuery
    /\ sched' = SchedulerAfterPass(page')
    /\ ChatPass("q", page')
    /\ op' = Op("chat")
    /\ retries' = 0
    /\ UNCHANGED <<seed, procVars, pc, reports, session, aliased, svc_pc, svc_reports, query>>

\* Variant of Logout that leaves the chat history as it is.
LogoutKeepsChat == ResetStore(LogoutSize) /\ UNCHANGED appVars

\* logout_callback: reset_the_reports(140) and chat_history.clear().
Logout ==
    /\ ResetStore(LogoutSize)
    /\ chat_history' = <<>>
    /\ UNCHANGED <<sched, query, prompt>>

\* Variant of SchedulerCycle without the test of the cap.
SchedulerCycleUncapped ==
    /\ sched = "active"
    /\ GenerateCall

\* One cycle of the refresh scheduler: it stops for good when the collection
\* has reached the cap, and calls generate_new_report otherwise.
SchedulerCycle ==
    /\ sched = "active"
    /\ IF Len(reports) >= SchedulerCap
       THEN /\ pc = "idle"
            /\ sched' = "terminal"
            /\ op' = Op("cycle_stop")
            /\ ret' = NoCall
            /\ retries' = 0
            /\ UNCHANGED <<seed, procVars, notice, pc, reports, session, aliased, svcVars,
                           chat_history, query, prompt>>
       ELSE GenerateCall

NextApp ==
    \/ FirstRender
    \/ Rerender
    \/ NavHome
    \/ NavMap
    \/ Chat
    \/ Logout
    \/ SchedulerCycle
    \/ GenerateCollide
    \/ GenerateAppend
    \/ GenerateRaise

SpecApp == InitSmall /\ [][NextApp]_vars

\* ------------------------------------------------- page flow of app_content.py

\* Variant of OpenReportById that shows whatever the lookup returned.
OpenReportByIdUnchecked(x) ==
    /\ pc = "idle"
    /\ query' = x
    /\ selected_report_data' = GetReportById(reports, x)
    /\ page' = "report_view"
    /\ notice' = notice \ {"not_found"}
    /\ sched' = SchedulerAfterPass(page')
    /\ op' = [name |-> "open_id", n |-> x]
    /\ ret' = Returned(GetReportById(reports, x))
    /\ retries' = 0
    /\ UNCHANGED <<seed, procVars, pc, reports, session, aliased, svc_pc, svc_reports,
                   chat_history, prompt>>

\* A pass with ?report_id=x in the URL: the record found is selected and the
\* page becomes report_view; the parameter stays in the URL.  A record not
\* found is reported by st.error and the page flow is left as it was.
OpenReportById(x) ==
    /\ pc = "idle"
    /\ query' = x
    /\ IF GetReportById(reports, x) # None
       THEN /\ selected_report_data' = GetReportById(reports, x)
            /\ page' = "report_view"
            /\ notice' = notice \ {"not_found"}
       ELSE /\ UNCHANGED <<page, selected_report_data>>
            /\ notice' = notice \cup {"not_found"}
    /\ sched' = SchedulerAfterPass(page')
    /\ op' = [name |-> "open_id", n |-> x]
    /\ ret' = Returned(GetReportById(reports, x))
    /\ retries' = 0
    /\ UNCHANGED <<seed, procVars, pc, reports, session, aliased, svc_pc, svc_reports,
                   chat_history, prompt>>

OpenById == \E x \in Ids : OpenReportById(x)

\* report_view_page, "Back to Assessments": page, selection and query
\* parameters are cleared and the script reruns.
BackToList ==
    /\ pc = "idle"
    /\ page = "report_view"
    /\ page' = "report_selection"
    /\ selected_report_data' = None
    /\ query' = 0
    /\ notice' = notice \ {"not_found"}
    /\ sched' = SchedulerAfterPass("report_selection")
    /\ op' = Op("back")
    /\ ret' = NoCall
    /\ retries' = 0
    /\ UNCHANGED <<seed, procVars, pc, reports, session, aliased, svc_pc, svc_reports,
                   chat_history, prompt>>

\* map_view_page, a click on the point of the i-th record: the record looked
\* up by its id is selected, the page becomes report_view and the script
\* reruns; the pass of the rerun handles the query parameter.
SelectMapPoint(i) ==
    /\ pc = "idle"
    /\ page = "map_view"
    /\ ~QueryFound
    /\ i \in DOMAIN reports
    /\ IF GetReportById(reports, reports[i].id) # None
       THEN /\ page' = "report_view"
            /\ selected_report_data' =
                   SelectedAfterQuery(GetReportById(reports, reports[i].id))
       ELSE /\ page' = PageAfterQuery(page)
            /\ selected_report_data' = SelectedAfterQuery(selected_report_data)
    /\ notice' = NoticeAfterQuery
    /\ sched' = SchedulerAfterPass(page')
    /\ op' = [name |-> "map_point", n |-> i]
    /\ ret' = Returned(GetReportById(reports, reports[i].id))
    /\ retries' = 0
    /\ UNCHANGED <<seed, procVars, pc, reports, session, aliased, svc_pc, svc_reports,
                   chat_history, query, prompt>>

SelectPoint == \E i \in 1..MaxReports : SelectMapPoint(i)

\* The value ReportTable.sort_data compares for a column.
SortKey(r, column) == IF column = "report_id" THEN r.id ELSE r.date

\* list.sort(key, reverse) places r in an already sorted prefix: behind every
\* entry that does not have to follow it, so equal keys keep their order.
InsertByKey(s, r, column, reverse) ==
    LET before == {i \in DOMAIN s :
                     IF reverse THEN SortKey(s[i], column) >= SortKey(r, column)
                     ELSE SortKey(s[i], column) <= SortKey(r, column)}
        k == Cardinality({i \in DOMAIN s : \A j \in 1..i : j \in before})
    IN  SubSeq(s, 1, k) \o <<r>> \o SubSeq(s, k + 1, Len(s))

\* ReportTable.sort_data on a list, column and sort order.
RECURSIVE SortData(_, _, _)
SortData(data, column, reverse) ==
    IF data = <<>> THEN <<>>
    ELSE InsertByKey(SortData(SubSeq(data, 1, Len(data) - 1), column, reverse),
                     data[Len(data)], column, reverse)

SortColumns == {"none", "report_id", "report_date"}

\* Variant of RenderTable that sorts the list get_all_reports returned.
RenderTableInPlace(column, reverse) ==
    /\ pc = "idle"
    /\ PageAfterQuery(page) = "report_selection"
    /\ reports # <<>>
    /\ LET rows == IF column = "none" THEN reports
                   ELSE SortData(reports, column, reverse)
       IN  /\ ret' = ReturnedRows(rows)
           /\ reports' = rows
           /\ session' = IF aliased THEN [session EXCEPT !.val = rows] ELSE session
    /\ notice' = NoticeAfterQuery
    /\ sched' = SchedulerAfterPass(page)
    /\ op' = [name |-> "render_table", n |-> IF reverse THEN 1 ELSE 0]
    /\ retries' = 0
    /\ UNCHANGED <<seed, procVars, pc, aliased, svcVars, chat_history, query, prompt>>

\* A pass that shows the listing: ReportTable.render with the sort column and
\* order of the URL.  The rows shown are a sorted copy of the collection.
RenderTable(column, reverse) ==
    /\ pc = "idle"
    /\ PageAfterQuery(page) = "report_selection"
    /\ reports # <<>>
    /\ LET rows == IF column = "none" THEN reports
                   ELSE SortData(reports, column, reverse)
       IN  ret' = ReturnedRows(rows)
    /\ notice' = NoticeAfterQuery
    /\ sched' = SchedulerAfterPass(page)
    /\ op' = [name |-> "render_table", n |-> IF reverse THEN 1 ELSE 0]
    /\ retries' = 0
    /\ UNCHANGED <<seed, procVars, pc, reports, session, aliased, svcVars, chat_history,
                   query, prompt>>

ShowListing == \E column \in SortColumns, reverse \in BOOLEAN : RenderTable(column, reverse)

NextNav ==
    \/ ShowListing
    \/ FirstRender
    \/ Rerender
    \/ OpenById
    \/ BackToList
    \/ SelectPoint
    \/ NavHome
    \/ NavMap
    \/ Logout

SpecNav == InitSmall /\ [][NextNav]_vars

\* ================================================================ claims

\* The step is a generate_new_report call returning after its append.
AppendStep == pc = "gen" /\ op'.name = "generate" /\ ret'.kind = "return"

\* The step is a whole reset_the_reports(op'.n) call.
ResetStep == pc = "idle" /\ op'.name \in {"reset_return", "reset_sample"}

\* The step is report_selection_page looking up ?report_id=x.
OpenStep(x) == svc_pc = "ready" /\ op' = [name |-> "open", n |-> x]

\* s with its i-th element removed.
RemoveAt(s, i) == SubSeq(s, 1, i - 1) \o SubSeq(s, i + 1, Len(s))

\* C1: a generate_new_report call that starts from a collection with pairwise
\* distinct ids ends with a collection with pairwise distinct ids, also when
\* the generator answered with stored ids on the way.
C1_UniqueIdsPreserved ==
    [][(AppendStep /\ DistinctIds(reports)) => DistinctIds(reports')]_vars

\* An append that followed at least one colliding generator answer.
C1_Witness ==
    /\ op.name = "generate"
    /\ ret.kind = "return"
    /\ pc = "idle"
    /\ retries > 0
    /\ Len(reports) >= 2
    /\ DistinctIds(reports)

\* C2: once ReportManager is constructed, its collection is sorted by
\* report_date descending after every operation.
C2_SortedDescending == pc # "new" => IsSortedDesc(reports)

\* Three records with different dates at the ends, right after an append.
C2_Witness ==
    /\ op.name = "generate"
    /\ ret.kind = "return"
    /\ pc = "idle"
    /\ Len(reports) = 3
    /\ reports[1].date > reports[3].date

\* A well-formed seed file with pairwise distinct ids has just been loaded.
LoadedWellFormed ==
    /\ op.name = "construct"
    /\ seed.status = "ok"
    /\ DistinctIds(seed.recs)

C4_Original ==
    [][(ResetStep /\ op'.n < Len(reports) /\ seed.status = "ok" /\ seed.recs # <<>>) =>
            /\ Len(reports') = op'.n
            /\ MembersOf(reports') \subseteq MembersOf(seed.recs)
            /\ IsSortedDesc(reports')]_vars

\* C4 amended: a shrinking reset leaves exactly n records, all of them
\* records that were in the collection right before the call, sorted
\* descending.
C4_ShrinkSamplesCurrent ==
    [][(ResetStep /\ op'.n < Len(reports)) =>
            /\ Len(reports') = op'.n
            /\ MembersOf(reports') \subseteq MembersOf(reports)
            /\ IsSortedDesc(reports')]_vars

\* A reset has shrunk the collection and a record that is not in the seed
\* file is still stored.
C4_Witness ==
    /\ op.name = "reset_sample"
    /\ Len(reports) = op.n
    /\ op.n >= 1
    /\ seed.status = "ok"
    /\ seed.recs # <<>>
    /\ \E i \in DOMAIN reports : reports[i] \notin MembersOf(seed.recs)

\* C5: reset_the_reports(n) with n >= current size changes neither the
\* collection (size, contents, order) nor the reports entry of session state.
C5_ResetNoop ==
    [][(ResetStep /\ op'.n >= Len(reports)) =>
            (reports' = reports /\ session' = session)]_vars

\* A reset took the early return on a collection of two or more records.
C5_Witness ==
    /\ op.name = "reset_return"
    /\ op.n >= Len(reports)
    /\ Len(reports) >= 2
    /\ session.val = reports

\* The scenario of C6: the whole seed file of k >= 1 records was loaded, the
\* collection has grown beyond n through appends, and k < n.
GrownPastSeed(n) ==
    /\ seed.status = "ok"
    /\ Len(seed.recs) >= 1
    /\ Len(seed.recs) <= InitialSample
    /\ Len(seed.recs) < n
    /\ n < Len(reports)

\* C6 as stated: in that scenario the reset leaves min(n, k) records.
C6_Original ==
    [][(ResetStep /\ GrownPastSeed(op'.n)) =>
            Len(reports') = Min(op'.n, Len(seed.recs))]_vars

\* C6 amended: in that scenario the reset leaves n records, more than the
\* seed file holds.
C6_ShrinkKeepsN ==
    [][(ResetStep /\ GrownPastSeed(op'.n)) =>
            (Len(reports') = op'.n /\ Len(reports') > Len(seed.recs))]_vars

\* After a reset, the collection is larger than the seed file it came from.
C6_Witness ==
    /\ op.name = "reset_sample"
    /\ seed.status = "ok"
    /\ Len(seed.recs) >= 1
    /\ Len(seed.recs) <= InitialSample
    /\ Len(reports) > Len(seed.recs)

\* C7: generate_new_report grows the collection by exactly one record: the
\* collection without the new record is the old collection in its old order,
\* the id of the new record was not stored before, and the new collection is
\* the reports entry of session state.
C7_AppendGrowsByOne ==
    [][AppendStep =>
        /\ Len(reports') = Len(reports) + 1
        /\ \E i \in DOMAIN reports' :
              /\ RemoveAt(reports', i) = reports
              /\ reports'[i].id \notin IdsOf(reports)
        /\ session' = [present |-> TRUE, val |-> reports']]_vars

\* An append to a collection that already held two records.
C7_Witness ==
    /\ op.name = "generate"
    /\ ret.kind = "return"
    /\ pc = "idle"
    /\ Len(reports) = 3
    /\ session.val = reports

\* C8 as stated: generate_new_report returns the record it has inserted,
\* and that record is in the collection.
C8_ReturnsNewRecord ==
    (op.name = "generate" /\ ret.kind = "return") =>
        (ret.val # None /\ ret.val \in MembersOf(reports))

\* C9: the lookup by id returns None for an id that is not stored and a
\* stored record with that id otherwise, and opening a report by id leaves
\* the collection and its order as they were.
C9_LookupById ==
    /\ [](\A x \in Ids :
            IF x \in IdsOf(svc_reports)
            THEN /\ GetById(svc_reports, x) \in MembersOf(svc_reports)
                 /\ GetById(svc_reports, x).id = x
            ELSE GetById(svc_reports, x) = None)
    /\ [][\A x \in Ids : OpenStep(x) =>
            /\ svc_reports' = svc_reports
            /\ ret'.val = GetById(svc_reports, x)]_vars

\* A lookup found a record that is not the first of the collection.
C9_Witness ==
    /\ op.name = "open"
    /\ Len(svc_reports) >= 2
    /\ ret.val # None
    /\ ret.val.id = op.n
    /\ svc_reports[1].id # op.n
    /\ ret.val \in MembersOf(svc_reports)
    /\ selected_report_data = ret.val

\* C10 as stated: with the seed file missing, constructing the store does
\* not fail.
C10_MissingSeedNotFatal ==
    (seed.status = "missing" /\ op.name = "svc_construct") =>
        (svc_pc = "ready" /\ ret.kind = "return")

\* C11: when a record of the seed file fails validation, the load yields no
\* record at all: the list ReportManager stores is empty, and the
\* ReportService constructor raises with nothing stored.
C11_NoPartialLoad ==
    seed.status = "bad_record" =>
        /\ pc = "loaded" => (reports = <<>> /\ session.val = <<>>)
        /\ svc_pc # "new" => (svc_pc = "crashed" /\ svc_reports = <<>>)
        /\ op.name = "svc_load" => ret = Raised

\* Both stores have loaded a file that holds valid records next to the
\* invalid one.
C11_Witness ==
    /\ seed.status = "bad_record"
    /\ seed.recs # <<>>
    /\ pc = "loaded"
    /\ op.name = "load"
    /\ svc_pc = "crashed"

\* C13: a generate_new_report call in which the generator fails appends
\* nothing (the collection and the session's reports are as before) and ends
\* normally for its caller, with no exception passed on.
C13_FailureIsolated ==
    [][(pc = "gen" /\ pc' = "idle" /\ Len(reports') = Len(reports)) =>
          /\ reports' = reports
          /\ session' = session
          /\ ret'.kind = "return"]_vars

\* C19: when the load yields no record and __init__ synthesizes the initial
\* batch, the ids of the batch are pairwise distinct.
C19_BatchIdsDistinct ==
    (op.name = "construct" /\ LoadInitialReports(seed) = {<<>>}) =>
        DistinctIds(reports)

\* C20: after ReportService.generate_new_report has appended a report, the
\* ReportService collection is sorted by report_date, newest first.
C20_ServiceSortedAfterAppend ==
    (op.name = "svc_generate" /\ ret.kind = "return") =>
        IsSortedDesc(svc_reports)

\* C18: get_all_reports returns the collection as it stands, so two calls
\* with no mutation between them return equal sequences; get_report_ids
\* returns exactly the ids of the records get_all_reports returns; neither
\* query changes the collection or the session's reports.
C18_QueriesPure ==
    /\ [](op.name = "get_all" => ret.val = reports)
    /\ [](op.name = "get_ids" => ret.val = {reports[i].id : i \in DOMAIN reports})
    /\ [][op'.name \in {"get_all", "get_ids"} =>
             (reports' = reports /\ session' = session)]_vars
    /\ [][(op.name = "get_all" /\ op'.name = "get_ids") =>
             ret'.val = {ret.val[i].id : i \in DOMAIN ret.val}]_vars

\* get_report_ids has answered on a collection with two different ids.
C18_Witness ==
    /\ op.name = "get_ids"
    /\ Len(reports) >= 2
    /\ Cardinality(ret.val) >= 2

\* C12: within a session the store is attached again on every render pass,
\* not rebuilt: the store is constructed (and the seed file read) only in a
\* pass that finds no manager in the session; no step other than a shrink
\* removes a record, so an appended record is there in every later pass;
\* the session's reports equal the manager's collection, and after an append
\* or a sampling shrink they are the same list.
C12_StoreReattached ==
    /\ [][op'.name = "construct" => pc = "new"]_vars
    /\ [][(pc # "new" /\ ~ResetStep) =>
             MembersOf(reports) \subseteq MembersOf(reports')]_vars
    /\ [](pc # "new" => (session.present /\ session.val = reports))
    /\ []((op.name \in {"generate", "reset_sample"} /\ ret.kind = "return") => aliased)

\* A later render pass shows a collection that holds an appended record next
\* to the records of the seed file.
C12_Witness ==
    /\ op.name = "render"
    /\ seed.status = "ok"
    /\ Len(reports) > Len(seed.recs)
    /\ session.val = reports

\* C14: a logout leaves at most LogoutSize records, never more than there
\* were before it, and an empty chat history.
C14_LogoutShrinksAndClears ==
    [][ResetStep =>
          /\ Len(reports') <= LogoutSize
          /\ Len(reports') <= Len(reports)
          /\ chat_history' = <<>>]_vars

\* A logout has sampled a collection that had grown past LogoutSize.
C14_Witness ==
    /\ op = [name |-> "reset_sample", n |-> LogoutSize]
    /\ Len(reports) = LogoutSize
    /\ chat_history = <<>>

\* C15: after a logout the page is the listing and no report is selected.
C15_LogoutResetsPage ==
    op.name \in {"reset_return", "reset_sample"} =>
        (page = "report_selection" /\ selected_report_data = None)

\* C16: the collection never grows past the cap; a scheduler cycle that finds
\* the collection at the cap makes no generation call, leaves the collection
\* as it is and ends the instance; an ended instance makes no call, and only
\* a new render pass replaces it by a fresh one.
C16_CapStopsScheduler ==
    /\ [](Len(reports) <= SchedulerCap)
    /\ [][(sched = "active" /\ pc = "idle" /\ Len(reports) >= SchedulerCap
            /\ op'.name \in {"cycle_stop", "generate_call"}) =>
             (sched' = "terminal" /\ pc' = "idle" /\ reports' = reports)]_vars
    /\ [](sched = "terminal" => pc = "idle")
    /\ [][(sched = "terminal" /\ sched' # "terminal") =>
             op'.name \in {"render", "home", "chat"}]_vars

\* A cycle has found the collection at the cap and ended the instance.
C16_Witness ==
    /\ op.name = "cycle_stop"
    /\ sched = "terminal"
    /\ Len(reports) = SchedulerCap

\* C17: a record is appended by a scheduler cycle only while the active page
\* is the listing.
C17_AppendOnlyOnListing ==
    [][(pc = "gen" /\ Len(reports') > Len(reports)) =>
          page = "report_selection"]_vars

\* C21: after a colliding id the retry loop stays in the call and asks the
\* generator again; a call in progress ends, given that the generator
\* eventually answers with an id that is not stored; and the record a call
\* appends has an id that was not in the collection.
C21_RetryUntilUnique ==
    /\ (pc = "gen") ~> (pc = "idle")
    /\ [][(pc = "gen" /\ retries' = retries + 1) =>
             (pc' = "gen" /\ reports' = reports)]_vars
    /\ [][AppendStep =>
             Cardinality(IdsOf(reports')) = Cardinality(IdsOf(reports)) + 1]_vars

\* A call has returned after at least one colliding answer.
C21_Witness ==
    /\ op.name = "generate"
    /\ ret.kind = "return"
    /\ retries >= 1
    /\ pc = "idle"

\* Number of entries of s that equal r.
Occurrences(s, r) == Cardinality({i \in DOMAIN s : s[i] = r})

\* C22: reset_the_reports(n) with n below the current size leaves exactly n
\* records, each of them a different entry of the collection as it was right
\* before the call (no entry is taken twice, none is added, none comes from
\* the seed file), and stores them as the session's reports.
C22_ShrinkKeepsCurrentEntries ==
    [][(ResetStep /\ op'.n < Len(reports)) =>
            /\ Len(reports') = op'.n
            /\ \A r \in MembersOf(reports') :
                   Occurrences(reports', r) <= Occurrences(reports, r)
            /\ session'.val = reports']_vars

\* A reset has shrunk a collection that holds synthesized records only: the
\* records it kept did not come from a seed file.
C22_Witness ==
    /\ op.name = "reset_sample"
    /\ op.n >= 1
    /\ Len(reports) = op.n
    /\ seed.status = "missing"

\* C23: when the load yields no record, the construction ends normally in
\* one of two states: InitialBatch synthesized records that are both the
\* collection and the session's reports, or an empty collection and an
\* empty session entry together with the message of a failed generation.
C23_EmptySeedConstruct ==
    (op.name = "construct" /\ LoadInitialReports(seed) = {<<>>}) =>
        /\ pc = "idle"
        /\ ret.kind = "return"
        /\ session.present
        /\ session.val = reports
        /\ \/ Len(reports) = InitialBatch /\ aliased /\ "generate_error" \notin notice
           \/ reports = <<>> /\ "generate_error" \in notice

\* The construction has ended with an empty collection and the message of a
\* failed generation.
C23_Witness ==
    /\ op.name = "construct"
    /\ seed.status = "missing"
    /\ reports = <<>>
    /\ notice = {"file_not_found", "generate_error"}

\* What the claim requires of a request to open the report with id x on the
\* collection s: the record with that id is selected and shown, or the page
\* flow is left as it was and a not-found error is reported.
OpenOutcome(s, x) ==
    IF x \in IdsOf(s)
    THEN /\ selected_report_data' \in MembersOf(s)
         /\ selected_report_data'.id = x
         /\ page' = "report_view"
    ELSE /\ page' = page
         /\ selected_report_data' = selected_report_data
         /\ "not_found" \in notice'

\* C24: a request to open a report by report_id selects the record with that
\* id and shows report_view when the id is in the store; when it is not, page
\* and selected_report_data stay as they were and a not-found error is
\* reported.  The request is the query parameter pass of app_content.py or of
\* main.py.
C24_OpenByIdFoundOrReported ==
    [][\A x \in Ids :
         /\ (pc = "idle" /\ op' = [name |-> "open_id", n |-> x]) => OpenOutcome(reports, x)
         /\ OpenStep(x) => OpenOutcome(svc_reports, x)]_vars

\* C25: rendering the report table with any sort column and order leaves the
\* collection of the store, its order and the session's list as they were;
\* the rows shown are the collection sorted by that column.
C25_TableSortsCopy ==
    [][op'.name = "render_table" =>
          /\ reports' = reports
          /\ session' = session
          /\ Len(ret'.val) = Len(reports)
          /\ \A r \in MembersOf(reports) : Occurrences(ret'.val, r) = Occurrences(reports, r)]_vars

\* The table has shown rows in an order that differs from the store's, and
\* the store is still sorted by date.
C25_Witness ==
    /\ op.name = "render_table"
    /\ ret.val # reports
    /\ Len(reports) >= 2
    /\ IsSortedDesc(reports)

Pages == {"report_selection", "report_view", "map_view"}

\* C26: in every state of a session page is one of the three pages, and
\* while page is report_view a record is selected, whatever sequence of
\* open-by-id, map-point selection, Back, Home, Map and logout led there.
C26_PageFlowInvariant ==
    /\ page \in Pages
    /\ page = "report_view" => selected_report_data # None

\* A logout has dropped the record that is shown: report_view still has its
\* selected record, which is no longer in the store.
C26_Witness ==
    /\ op.name = "reset_sample"
    /\ page = "report_view"
    /\ query # 0
    /\ selected_report_data # None
    /\ selected_report_data \notin MembersOf(reports)

\* C27: a navigation action takes effect on the next render pass: after Home
\* the page rendered is report_selection and after Map it is map_view, also
\* while the report_id parameter of an opened report is still in the URL.
C27_NavigationTakesEffect ==
    [][/\ op'.name = "home" => page' = "report_selection"
       /\ op'.name = "map" => page' = "map_view"]_vars

\* C28: the chat history is a sequence of pairs, one user turn followed by
\* one assistant turn for each question submitted: it alternates user and
\* assistant and starts with user, after every render pass and also when the
\* model has returned an empty answer.
C28_HistoryAlternates ==
    /\ Len(chat_history) % 2 = 0
    /\ \A i \in DOMAIN chat_history :
          chat_history[i] = IF i % 2 = 1 THEN "user" ELSE "assistant"

\* C29: a chat question submitted on any of the three pages is processed
\* without an error leaving the render pass.
C29_ChatOnEveryPage == op.name = "chat" => ret # Raised

\* C30: get_report_service returns the same instance on every call in a
\* process: the seed is loaded and sampled once, every session that has made
\* the call holds the one instance of the module global, and so a record
\* appended through one session's reference is in the collection every later
\* call returns.
C30_OneServiceInstance ==
    /\ Len(instances) <= 1
    /\ \A t \in Sessions : report_service[t] # 0 => report_service[t] = service_singleton
    /\ \A t \in Sessions :
          (report_service[t] # 0 /\ service_singleton # 0) =>
             \A r \in MembersOf(instances[report_service[t]]) :
                r \in MembersOf(instances[service_singleton])

====
